---- MODULE Spec2Model ----
(***************************************************************************)
(* The OpenVAir installer (openvair_installer): the step registry and its  *)
(* fail-fast execute_all, the dashboard's progress model, the message      *)
(* channel between the installation task and the dashboard loop, and       *)
(* main's dispatch and exit status.                                        *)
(*                                                                         *)
(* Representation choices                                                  *)
(*  - a Box<dyn InstallerStep> is the fat pointer <<data address, vtable>>.*)
(*    Every step type of the repository is a unit struct, so Box::new does *)
(*    not allocate and the data address is the same dangling address for   *)
(*    every step; the vtable is the one of the step's type.                *)
(*  - overall_progress (an f64 percentage) is held as the exact rational   *)
(*    percentage multiplied by steps.len(): the value 100 * c stands for   *)
(*    c / steps.len() * 100.0.  Floating point rounding is not modelled.   *)
(*  - a formatted status string is the tuple <<prefix, argument>>.         *)
(***************************************************************************)
EXTENDS Integers, Sequences, FiniteSets, TLC

VARIABLES
    \* ---- StepRegistry and execute_all (installer.rs)
    reg_steps,        \* StepRegistry.steps: sequence of boxed steps
    exec_pc,          \* "build" | "loop" | "run" | "returned" | "idle"
    exec_idx,         \* 0-based position of the for loop of execute_all
    exec_result,      \* <<"none">> | <<"Ok">> | <<"Err", failure>>
    ran,              \* history: build positions whose run was invoked, in order
    reported,         \* history: the numbers printed as [p/N], in order
    step_error,       \* history: <<"none">> or <<"Err", failure>> returned by a step's run
    failed_at,        \* history: build position of the step whose run failed, 0 if none
    in_flight,        \* history: build positions whose run was invoked and has not returned
    succeeded,        \* history: build positions whose run returned Ok
    \* ---- InstallationContext and what the steps act on (installer.rs, config.rs)
    ctx,              \* the InstallationContext handed to the steps
    disk,             \* contents of CONFIG_FILE: <<>> (absent) or <<config>>
    env,              \* the host a single step is run on in the step harness
    last_run,         \* history: the step the step harness ran last, and its result
    \* ---- the host the steps act on (system.rs) and the secret generator
    files,            \* the files of the project directory the steps look at
    spawned,          \* history: the commands the last step run spawned, in order
    generated,        \* history: the secrets generate_random_secret returned, in order
    \* ---- TuiApp / InstallProgress (tui.rs)
    steps,            \* InstallProgress.steps
    current_step,     \* InstallProgress.current_step
    overall_progress, \* InstallProgress.overall_progress (scaled, see above)
    status_message,   \* TuiApp.status_message
    should_quit,      \* TuiApp.should_quit
    last_call,        \* history: the last operation applied to the model
    \* ---- channel, installation task and dashboard loop (tui.rs)
    queue,            \* messages in flight in the unbounded channel
    inst_pc,          \* position of run_installation_with_progress
    inst_i,           \* its loop variable i
    inst_result,      \* <<"none">> | <<"Ok">> | <<"Err", failure>>
    tui_pc,           \* position of run_tui_with_installation
    loop_end,         \* why the dashboard loop ended: "none" | "key" | "exit"
    sent,             \* history: messages sent by the installation task
    applied,          \* history: messages applied by handle_message
    \* ---- main (main.rs)
    cli,              \* parsed command line: [command, tui]
    main_pc,          \* position of main
    main_result       \* <<"none">> | <<"Ok">> | <<"Err", failure>>

regVars  == <<reg_steps, exec_pc, exec_idx, exec_result, ran, reported, step_error,
             failed_at, in_flight, succeeded>>
ctxVars  == <<ctx, disk, env, last_run>>
hostVars == <<files, spawned, generated>>
progVars == <<steps, current_step, overall_progress, status_message, should_quit, last_call>>
chanVars == <<queue, inst_pc, inst_i, inst_result, tui_pc, loop_end, sent, applied>>
mainVars == <<cli, main_pc, main_result>>
vars     == <<regVars, ctxVars, hostVars, progVars, chanVars, mainVars>>

\* ---------------------------------------------------------------- bounds
\* most add_step calls of a registry built by the registry harness
MaxRegistry == 3
\* number of step types the registry harness draws from
MaxTypes == 2
\* in-range step indices 0..MaxIndex-1 the progress harness draws from
MaxIndex == 2
\* number of distinct values generate_random_secret can draw
MaxSecrets == 2
\* number of successive calls of generate_random_secret the secret harness makes
MaxGenerations == 2

\* ---------------------------------------------------------------- helpers
None == <<"none">>
Ok == <<"Ok">>
Err(e) == <<"Err", e>>
IsErr(r) == r[1] = "Err"

\* The kinds of failure a step's run can return (anyhow::Error values).
FailureKinds == {"precondition", "external"}

\* ------------------------------------------------------- step types
\* The step types run_first_ten_steps registers, in order.
FirstTenTypes ==
    << "TmuxInstallStep", "UserDataVerificationStep", "JwtSecretStep",
       "OsTypeDetectionStep", "HomeDirSetupStep", "PythonToolsStep",
       "VenvCreationStep", "PythonPathStep", "LibpqDevStep", "WebsockifyStep" >>

\* The step types run_extended_installation registers, in order.
ExtendedTypes ==
    FirstTenTypes \o
    << "LibvirtStep", "LibvirtPythonStep", "StorageRequirementsStep", "WheelStep",
       "PythonRequirementsStep", "PreCommitStep", "PostgresqlSupportStep",
       "OpenVSwitchStep", "MultipathStep", "ChangeOwnerStep", "ArchDetectionStep" >>

\* InstallerStep::name of each step type.
StepNameOf ==
    [ TmuxInstallStep |-> "TmuxInstall",
      UserDataVerificationStep |-> "UserDataVerification",
      JwtSecretStep |-> "JwtSecret",
      OsTypeDetectionStep |-> "OsTypeDetection",
      HomeDirSetupStep |-> "HomeDirSetup",
      PythonToolsStep |-> "PythonTools",
      VenvCreationStep |-> "VenvCreation",
      PythonPathStep |-> "PythonPath",
      LibpqDevStep |-> "LibpqDev",
      WebsockifyStep |-> "Websockify",
      LibvirtStep |-> "Libvirt",
      LibvirtPythonStep |-> "LibvirtPython",
      StorageRequirementsStep |-> "StorageRequirements",
      WheelStep |-> "Wheel",
      PythonRequirementsStep |-> "PythonRequirements",
      PreCommitStep |-> "PreCommit",
      PostgresqlSupportStep |-> "PostgresqlSupport",
      OpenVSwitchStep |-> "OpenVSwitch",
      MultipathStep |-> "Multipath",
      ChangeOwnerStep |-> "ChangeOwner",
      ArchDetectionStep |-> "ArchDetection" ]

\* faulty variant: the two libvirt steps answer with the same name
InstallerStep_name_LibvirtShared(ty) ==
    IF ty = "LibvirtPythonStep" THEN StepNameOf["LibvirtStep"] ELSE StepNameOf[ty]
\* step.name()
InstallerStep_name(ty) == StepNameOf[ty]

\* Box::new(step): the fat pointer of the boxed step.  The step types are
\* unit structs (size 0), so the data address is the dangling one whatever
\* the slot; the vtable is the type's.
BoxNew(ty, slot) == [ty |-> ty, data |-> "dangling", vtable |-> ty]

\* std::ptr::eq on *const dyn InstallerStep: address and metadata.
PtrEq(a, b) == a.data = b.data /\ a.vtable = b.vtable

\* StepRegistry::get_current_step_number:
\* steps.iter().position(|s| ptr::eq(s, current)).unwrap_or(0) + 1
PositionOf(seq, cur) ==
    LET hits == {j \in 1..Len(seq) : PtrEq(seq[j], cur)}
    IN  IF hits = {} THEN 0
        ELSE (CHOOSE j \in hits : \A k \in hits : j <= k) - 1
get_current_step_number(seq, cur) == PositionOf(seq, cur) + 1

\* The failure `step.run(ctx).await?` hands to execute_all's caller:
\* From<anyhow::Error> for anyhow::Error is the identity conversion.
\* faulty variant: the failure is wrapped in a new error
QuestionMark_Wrapped(e) == [wrapped |-> e]
QuestionMark(e) == e

\* ------------------------------------------------------- strings, options
\* A String is held as its identity and its byte length (String::len).
Str(id, len) == [id |-> id, len |-> len]
EmptyString == Str("", 0)

\* Option<T>: <<>> is None, <<v>> is Some(v).
Some(v) == <<v>>
NoneOpt == <<>>

\* Option::unwrap_or
\* faulty variant: the fallback wins over the value that is present
unwrap_or_Fallback(opt, default) == default
unwrap_or(opt, default) == IF opt = NoneOpt THEN default ELSE opt[1]

\* ------------------------------------------------------- OpenVairConfig
\* The fields of OpenVairConfig the steps read or write: default_user.login,
\* default_user.password, jwt.secret and os_data.os_type.
OpenVairConfig_default ==
    [login |-> EmptyString, password |-> EmptyString,
     jwt_secret |-> NoneOpt, os_type |-> EmptyString]

\* The host as a step finds it: whether CONFIG_FILE can be written, whether
\* /etc/os-release can be read, whether the external commands succeed.
Envs == [fs_ok : BOOLEAN, os_ok : BOOLEAN, ext_ok : BOOLEAN]

\* OpenVairConfig::save: the file holds the configuration, or the write
\* fails and the file is as it was.
save(config, d, e, who) ==
    IF e.fs_ok
    THEN [result |-> Ok, disk |-> Some(config)]
    ELSE [result |-> Err([step |-> who, kind |-> "external"]), disk |-> d]

\* OpenVairConfig::update_jwt_secret: the field is set, then save()?
update_jwt_secret(config, secret, d, e, who) ==
    LET c2 == [config EXCEPT !.jwt_secret = Some(secret)]
        s  == save(c2, d, e, who)
    IN  [result |-> s.result, config |-> c2, disk |-> s.disk]

\* OpenVairConfig::update_os_type: the field is set, then save()?
update_os_type(config, os_type, d, e, who) ==
    LET c2 == [config EXCEPT !.os_type = os_type]
        s  == save(c2, d, e, who)
    IN  [result |-> s.result, config |-> c2, disk |-> s.disk]

\* ------------------------------------------------------- InstallationContext
\* InstallationContext::new (project_path, user_path and user are the
\* constants of constants.rs and are never written).
InstallationContext_new(config) ==
    [config |-> config, user_login |-> NoneOpt, user_password |-> NoneOpt]

\* ------------------------------------------------------- the steps' run
\* What a run leaves: its result, the context and the configuration file.
RunResult(r, c, d) == [result |-> r, ctx |-> c, disk |-> d]

\* `?` on the result of a callee: the failure is handed on unchanged.
Try(r) == IF IsErr(r) THEN Err(QuestionMark(r[2])) ELSE Ok

MIN_LOGIN_LENGTH == 4
MIN_PASSWORD_LENGTH == 4
MAX_LOGIN_LENGTH == 30

\* The login test of UserDataVerificationStep::run
\* faulty variant: the upper bound is not tested
LoginValid_NoUpperBound(login) == login.len >= MIN_LOGIN_LENGTH
LoginValid(login) == login.len >= MIN_LOGIN_LENGTH /\ login.len <= MAX_LOGIN_LENGTH

\* The password test of UserDataVerificationStep::run
PasswordValid(password) == password.len >= MIN_PASSWORD_LENGTH

\* The credentials UserDataVerificationStep::run uses.
LoginInUse(c) == unwrap_or(c.user_login, c.config.login)
PasswordInUse(c) == unwrap_or(c.user_password, c.config.password)

\* UserDataVerificationStep::run
UserDataVerificationStep_run(c, d, e) ==
    LET who == "UserDataVerificationStep"
        login == LoginInUse(c)
        password == PasswordInUse(c)
    IN  IF ~LoginValid(login)
        THEN RunResult(Err([step |-> who, kind |-> "precondition"]), c, d)
        ELSE IF ~PasswordValid(password)
        THEN RunResult(Err([step |-> who, kind |-> "precondition"]), c, d)
        ELSE LET c2 == [c EXCEPT !.config.login = login, !.config.password = password]
                 s  == save(c2.config, d, e, who)
             IN  RunResult(Try(s.result), c2, s.disk)

\* generate_random_secret: 32 random bytes, base64 encoded (44 characters);
\* every call draws afresh.
RandomSecrets == {Str("secret" \o ToString(n), 44) : n \in 1..MaxSecrets}

\* JwtSecretStep::run with the secret the generator drew
JwtSecretStep_run(c, d, e, secret) ==
    LET u == update_jwt_secret(c.config, secret, d, e, "JwtSecretStep")
    IN  RunResult(Try(u.result), [c EXCEPT !.config = u.config], u.disk)

\* get_os_info on a host whose /etc/os-release can be read
HostOsId == Str("ubuntu", 6)

\* OsTypeDetectionStep::run
OsTypeDetectionStep_run(c, d, e) ==
    IF ~e.os_ok
    THEN RunResult(Err([step |-> "OsTypeDetectionStep", kind |-> "external"]), c, d)
    ELSE LET u == update_os_type(c.config, HostOsId, d, e, "OsTypeDetectionStep")
         IN  RunResult(Try(u.result), [c EXCEPT !.config = u.config], u.disk)

\* The run of a step that only acts on the host (packages, directories,
\* the virtual environment): it succeeds or fails with what the host
\* reports, and neither writes the context nor the configuration file.
HostStep_run(ty, c, d, e) ==
    IF e.ext_ok
    THEN RunResult(Ok, c, d)
    ELSE RunResult(Err([step |-> ty, kind |-> "external"]), c, d)

\* Every way the run of a step of type ty can end on host e.
StepOutcomes(ty, c, d, e) ==
    CASE ty = "UserDataVerificationStep" -> {UserDataVerificationStep_run(c, d, e)}
      [] ty = "JwtSecretStep" -> {JwtSecretStep_run(c, d, e, s) : s \in RandomSecrets}
      [] ty = "OsTypeDetectionStep" -> {OsTypeDetectionStep_run(c, d, e)}
      [] OTHER -> {HostStep_run(ty, c, d, e)}

\* ------------------------------------------------------- processes, run_command
\* A text is a sequence of characters; these are the ones str::trim removes.
Whitespace == {" ", "\n"}

RECURSIVE TrimStart(_)
TrimStart(s) == IF s # <<>> /\ Head(s) \in Whitespace THEN TrimStart(Tail(s)) ELSE s

RECURSIVE TrimEnd(_)
TrimEnd(s) ==
    IF s # <<>> /\ s[Len(s)] \in Whitespace THEN TrimEnd(SubSeq(s, 1, Len(s) - 1)) ELSE s

\* str::trim
trim(s) == TrimEnd(TrimStart(s))

\* What Command::output() can bring back: the process could not be spawned,
\* or it ran and left an exit status (no code when a signal ended it) and
\* its stderr.
StderrTexts == {<<>>, <<"E">>, <<" ", "E", " ", "r", "\n">>}
ExitCodes == {0, 1, 127}
Procs ==
    {[started |-> FALSE, code |-> NoneOpt, stderr |-> <<>>]}
    \cup {[started |-> TRUE, code |-> c, stderr |-> s] :
            c \in {NoneOpt} \cup {Some(n) : n \in ExitCodes}, s \in StderrTexts}

\* ExitStatus::success
status_success(proc) == proc.code = Some(0)

\* run_command: `.output().await?`, then the test of the exit status.
\* faulty variant: the exit status is not looked at
run_command_IgnoreStatus(proc) ==
    IF ~proc.started
    THEN Err([step |-> "run_command", kind |-> "external", cause |-> "spawn"])
    ELSE Ok
run_command(proc) ==
    IF ~proc.started
    THEN Err([step |-> "run_command", kind |-> "external", cause |-> "spawn"])
    ELSE IF status_success(proc) THEN Ok
    ELSE Err([step |-> "run_command", kind |-> "external", cause |-> "exit",
              code |-> unwrap_or(proc.code, -1), stderr |-> trim(proc.stderr)])

\* run_shell: run_command("sh", ["-c", command], description)
run_shell(proc) == run_command(proc)

\* The entry of the spawn history for a command and what became of it.
Spawn(command, proc, result) == [command |-> command, proc |-> proc, result |-> result]

\* The processes a host can bring back: on a host whose commands succeed
\* the process exits with status zero, elsewhere it does anything else.
ProcsOf(e) == {proc \in Procs : (proc.started /\ status_success(proc)) <=> e.ext_ok}

\* ------------------------------------------------------- OpenVairConfig::validate
\* web_app.host as a text: empty, blank, or a host name.
WebAppHosts == {<<>>, <<" ">>, <<"h">>}

\* OpenVairConfig::validate, on a configuration and its web_app.host
\* faulty variant: the upper limit of the login is not tested
validate_NoUpperLimit(config, host) ==
    IF config.login.len < 4
    THEN Err([step |-> "validate", kind |-> "login"])
    ELSE IF config.password.len < 4
    THEN Err([step |-> "validate", kind |-> "password"])
    ELSE IF trim(host) = <<>>
    THEN Err([step |-> "validate", kind |-> "host"])
    ELSE Ok
validate(config, host) ==
    IF config.login.len < 4 \/ config.login.len > 30
    THEN Err([step |-> "validate", kind |-> "login"])
    ELSE IF config.password.len < 4
    THEN Err([step |-> "validate", kind |-> "password"])
    ELSE IF trim(host) = <<>>
    THEN Err([step |-> "validate", kind |-> "host"])
    ELSE Ok

\* ------------------------------------------------------- steps on the project directory
\* What a run leaves, the files and the spawn history included.
HostResult(r, c, d, f, sp) ==
    [result |-> r, ctx |-> c, disk |-> d, files |-> f, spawned |-> sp]

\* The activate script is held as the sequence of its pieces of text: the
\* line PythonPathStep writes ("export"), another text in which
\* PYTHONPATH="<project_path>: occurs ("marker"), any other text ("other").
PythonPathLine == "export"
ActivatePieces == {"export", "marker", "other"}

\* The activate script `python3 -m venv` writes.
FreshActivate == <<"other">>

\* content.contains(&format!("PYTHONPATH=\"{}:", ctx.project_path))
contains_pythonpath(content) ==
    \E j \in 1..Len(content) : content[j] \in {"export", "marker"}

\* append_to_file(path, content): the text is added at the end of the file.
append_to_file(old, line) == old \o <<line>>

\* VenvCreationStep::run
VenvCreationStep_run(c, d, f, proc) ==
    IF f.venv
    THEN HostResult(Ok, c, d, f, <<>>)
    ELSE LET r == run_shell(proc)
             sp == <<Spawn("python3 -m venv venv", proc, r)>>
         IN  IF IsErr(r)
             THEN HostResult(Try(r), c, d, f, sp)
             ELSE HostResult(Ok, c, d,
                             [f EXCEPT !.venv = TRUE, !.activate = Some(FreshActivate)], sp)

\* PythonPathStep::run: the file system works (read_file and append_to_file
\* succeed) or it does not.
\* faulty variant: the line is appended without looking at the content
PythonPathStep_run_AlwaysAppend(c, d, f, e) ==
    IF f.activate = NoneOpt
    THEN HostResult(Err([step |-> "PythonPathStep", kind |-> "precondition"]), c, d, f, <<>>)
    ELSE IF ~e.fs_ok
    THEN HostResult(Err([step |-> "PythonPathStep", kind |-> "external"]), c, d, f, <<>>)
    ELSE HostResult(Ok, c, d,
                    [f EXCEPT !.activate = Some(append_to_file(f.activate[1], PythonPathLine))],
                    <<>>)
PythonPathStep_run(c, d, f, e) ==
    IF f.activate = NoneOpt
    THEN HostResult(Err([step |-> "PythonPathStep", kind |-> "precondition"]), c, d, f, <<>>)
    ELSE IF ~e.fs_ok
    THEN HostResult(Err([step |-> "PythonPathStep", kind |-> "external"]), c, d, f, <<>>)
    ELSE IF contains_pythonpath(f.activate[1])
    THEN HostResult(Ok, c, d, f, <<>>)
    ELSE HostResult(Ok, c, d,
                    [f EXCEPT !.activate = Some(append_to_file(f.activate[1], PythonPathLine))],
                    <<>>)

\* PythonRequirementsStep::run
\* faulty variant: a missing requirements.txt is a failure
PythonRequirementsStep_run_RequireFile(c, d, f, proc) ==
    IF f.requirements
    THEN LET r == run_shell(proc)
         IN  HostResult(Try(r), c, d, f, <<Spawn("pip install -r", proc, r)>>)
    ELSE HostResult(Err([step |-> "PythonRequirementsStep", kind |-> "precondition"]),
                    c, d, f, <<>>)
PythonRequirementsStep_run(c, d, f, proc) ==
    IF f.requirements
    THEN LET r == run_shell(proc)
         IN  HostResult(Try(r), c, d, f, <<Spawn("pip install -r", proc, r)>>)
    ELSE HostResult(Ok, c, d, f, <<>>)

\* Every way the run of a step of type ty can end on host e with files f;
\* the steps not detailed above leave the files alone and their commands
\* are not told apart.
StepRuns(ty, c, d, f, e) ==
    CASE ty = "VenvCreationStep" -> {VenvCreationStep_run(c, d, f, proc) : proc \in ProcsOf(e)}
      [] ty = "PythonPathStep" -> {PythonPathStep_run(c, d, f, e)}
      [] ty = "PythonRequirementsStep" ->
            {PythonRequirementsStep_run(c, d, f, proc) : proc \in ProcsOf(e)}
      [] OTHER -> {HostResult(o.result, o.ctx, o.disk, f, <<>>) :
                      o \in StepOutcomes(ty, c, d, e)}

\* ------------------------------------------------------- base64, secrets
\* A byte string is a sequence of 0..255; a base64 text is a sequence of
\* symbols, 0..63 for the alphabet and PadSymbol for '='.
PadSymbol == 64

\* One group of up to three bytes, encoded with padding (STANDARD engine).
EncodeGroup(g) ==
    IF Len(g) = 3
    THEN <<g[1] \div 4, (g[1] % 4) * 16 + g[2] \div 16, (g[2] % 16) * 4 + g[3] \div 64,
           g[3] % 64>>
    ELSE IF Len(g) = 2
    THEN <<g[1] \div 4, (g[1] % 4) * 16 + g[2] \div 16, (g[2] % 16) * 4, PadSymbol>>
    ELSE <<g[1] \div 4, (g[1] % 4) * 16, PadSymbol, PadSymbol>>

\* The same group without the padding symbols (STANDARD_NO_PAD engine).
EncodeGroup_NoPad(g) ==
    LET padded == EncodeGroup(g) IN SubSeq(padded, 1, Len(g) + 1)

\* Engine::encode of general_purpose::STANDARD
RECURSIVE EncodeFrom(_, _)
EncodeFrom(bytes, from) ==
    IF from > Len(bytes) THEN <<>>
    ELSE LET to == IF from + 2 <= Len(bytes) THEN from + 2 ELSE Len(bytes)
         IN  EncodeGroup(SubSeq(bytes, from, to)) \o EncodeFrom(bytes, to + 1)

\* faulty variant: the last group is written without padding
RECURSIVE EncodeFrom_NoPad(_, _)
EncodeFrom_NoPad(bytes, from) ==
    IF from > Len(bytes) THEN <<>>
    ELSE LET to == IF from + 2 <= Len(bytes) THEN from + 2 ELSE Len(bytes)
         IN  EncodeGroup_NoPad(SubSeq(bytes, from, to)) \o EncodeFrom_NoPad(bytes, to + 1)

base64_encode_NoPad(bytes) == EncodeFrom_NoPad(bytes, 1)
base64_encode(bytes) == EncodeFrom(bytes, 1)

\* One group of four symbols decoded; the last group may end in one or two
\* padding symbols, and the bits it leaves unused must be zero.
DecodeGroup(q, last) ==
    IF q[1] = PadSymbol \/ q[2] = PadSymbol THEN Err("InvalidByte")
    ELSE IF q[3] = PadSymbol
    THEN IF ~last \/ q[4] # PadSymbol THEN Err("InvalidPadding")
         ELSE IF q[2] % 16 # 0 THEN Err("InvalidLastSymbol")
         ELSE <<"Ok", <<q[1] * 4 + q[2] \div 16>> >>
    ELSE IF q[4] = PadSymbol
    THEN IF ~last THEN Err("InvalidPadding")
         ELSE IF q[3] % 4 # 0 THEN Err("InvalidLastSymbol")
         ELSE <<"Ok", <<q[1] * 4 + q[2] \div 16, (q[2] % 16) * 16 + q[3] \div 4>> >>
    ELSE <<"Ok", <<q[1] * 4 + q[2] \div 16, (q[2] % 16) * 16 + q[3] \div 4,
                   (q[3] % 4) * 64 + q[4]>> >>

\* Engine::decode of general_purpose::STANDARD (padding required).
RECURSIVE DecodeFrom(_, _)
DecodeFrom(text, from) ==
    IF from > Len(text) THEN <<"Ok", <<>> >>
    ELSE LET head == DecodeGroup(SubSeq(text, from, from + 3), from + 3 = Len(text))
             rest == DecodeFrom(text, from + 4)
         IN  IF IsErr(head) THEN head
             ELSE IF IsErr(rest) THEN rest
             ELSE <<"Ok", head[2] \o rest[2]>>

base64_decode(text) ==
    IF Len(text) % 4 # 0 THEN Err("InvalidPadding") ELSE DecodeFrom(text, 1)

\* generate_random_secret: [0u8; 32] filled by the generator, then encoded.
SecretLength == 32

\* The byte strings the generator is taken to draw: any sample byte at the
\* first position and at the two positions of the last, incomplete group.
ByteSamples == {0, 77, 255}
VariedPositions == {1, SecretLength - 1, SecretLength}
RandomBytes ==
    {[i \in 1..SecretLength |-> IF i \in VariedPositions THEN pick[i] ELSE 0] :
        pick \in [VariedPositions -> ByteSamples]}

generate_random_secret(secret_bytes) == base64_encode(secret_bytes)

\* ------------------------------------------------------- StepRegistry
\* StepRegistry::add_step: push at the end.
\* faulty variant: the step is put at the front
add_step_Prepend(seq, ty) == <<BoxNew(ty, 1)>> \o seq
add_step(seq, ty) == Append(seq, BoxNew(ty, Len(seq) + 1))

RECURSIVE BuildRegistry(_)
BuildRegistry(types) ==
    IF types = <<>> THEN <<>>
    ELSE add_step(BuildRegistry(SubSeq(types, 1, Len(types) - 1)), types[Len(types)])

\* execute_all, head of the for loop: either the iteration starts (the
\* position is logged, run is invoked) or the loop is over and Ok returned.
\* faulty variant: run is started but not awaited, the loop moves on
ExecLoop_NoAwait ==
    /\ exec_pc = "loop"
    /\ IF exec_idx < Len(reg_steps)
       THEN /\ reported' = Append(reported,
                   get_current_step_number(reg_steps, reg_steps[exec_idx + 1]))
            /\ ran' = Append(ran, exec_idx + 1)
            /\ in_flight' = in_flight \cup {exec_idx + 1}
            /\ exec_idx' = exec_idx + 1
            /\ UNCHANGED <<exec_result, exec_pc>>
       ELSE /\ exec_result' = Ok
            /\ exec_pc' = "returned"
            /\ UNCHANGED <<reported, ran, in_flight, exec_idx>>
    /\ UNCHANGED <<reg_steps, step_error, failed_at, succeeded>>
ExecLoop ==
    /\ exec_pc = "loop"
    /\ IF exec_idx < Len(reg_steps)
       THEN /\ reported' = Append(reported,
                   get_current_step_number(reg_steps, reg_steps[exec_idx + 1]))
            /\ ran' = Append(ran, exec_idx + 1)
            /\ in_flight' = in_flight \cup {exec_idx + 1}
            /\ exec_pc' = "run"
            /\ UNCHANGED <<exec_result, exec_idx>>
       ELSE /\ exec_result' = Ok
            /\ exec_pc' = "returned"
            /\ UNCHANGED <<reported, ran, in_flight, exec_idx>>
    /\ UNCHANGED <<reg_steps, step_error, failed_at, succeeded>>

\* What execute_all does once the awaited run has returned `outcome`.
\* faulty variant: a failure is swallowed and the loop goes on
AfterRun_Continue(outcome) ==
    /\ exec_idx' = exec_idx + 1
    /\ exec_pc' = "loop"
    /\ UNCHANGED exec_result
AfterRun(outcome) ==
    IF IsErr(outcome)
    THEN /\ exec_result' = Err(QuestionMark(outcome[2]))
         /\ exec_pc' = "returned"
         /\ UNCHANGED exec_idx
    ELSE /\ exec_idx' = exec_idx + 1
         /\ exec_pc' = "loop"
         /\ UNCHANGED exec_result

\* The awaited step.run(ctx) returns: the step has acted on the context and
\* on the host as it found it, and execute_all goes on or returns.
ExecRunReturns ==
    /\ exec_pc = "run"
    /\ \E e \in Envs :
         \E o \in StepRuns(reg_steps[exec_idx + 1].ty, ctx, disk, files, e) :
          /\ step_error' = IF IsErr(o.result) THEN o.result ELSE step_error
          /\ failed_at' = IF IsErr(o.result) THEN exec_idx + 1 ELSE failed_at
          /\ succeeded' = IF IsErr(o.result) THEN succeeded
                          ELSE succeeded \cup {exec_idx + 1}
          /\ in_flight' = in_flight \ {exec_idx + 1}
          /\ ctx' = o.ctx
          /\ disk' = o.disk
          /\ files' = o.files
          /\ spawned' = o.spawned
          /\ AfterRun(o.result)
    /\ UNCHANGED <<reg_steps, ran, reported>>

\* ------------------------------------------------------- InstallProgress
\* The names of the records InstallProgress::new creates, in order (the
\* descriptions are display text only and are left out).
InstallStepNames ==
    << "Install tmux", "Verify user data", "Create JWT secret",
       "Detect OS type", "Setup directories", "Install Python tools",
       "Create virtual env", "Configure PYTHONPATH", "Install libpq-dev",
       "Install websockify", "Install libvirt", "Storage requirements",
       "Python requirements", "Pre-commit hooks", "PostgreSQL support",
       "OpenVSwitch", "Multipath tools", "Change ownership",
       "Detect architecture", "Install Docker", "PostgreSQL container",
       "RabbitMQ", "SNMP", "Database migrations",
       "SSL certificates", "Prometheus", "Node Exporter",
       "Open-iSCSI", "NoVNC", "JQ utility",
       "Restic backup", "Process services", "UV package manager",
       "Documentation", "Clean home directory", "Hash password",
       "Create default user", "Restart web app", "Final message" >>

NumSteps == Len(InstallStepNames)

\* InstallStep::new
\* faulty variant: the record is created in progress
InstallStep_new_InProgress(name) ==
    [name |-> name, completed |-> FALSE, in_progress |-> TRUE, failed |-> FALSE]
InstallStep_new(name) ==
    [name |-> name, completed |-> FALSE, in_progress |-> FALSE, failed |-> FALSE]

\* InstallStep::start
\* faulty variant: the completed flag is not cleared
InstallStep_start_KeepCompleted(s) == [s EXCEPT !.in_progress = TRUE, !.failed = FALSE]
InstallStep_start(s) ==
    [s EXCEPT !.in_progress = TRUE, !.completed = FALSE, !.failed = FALSE]

\* InstallStep::complete
\* faulty variant: the in_progress flag is not cleared
InstallStep_complete_KeepInProgress(s) == [s EXCEPT !.completed = TRUE, !.failed = FALSE]
InstallStep_complete(s) ==
    [s EXCEPT !.in_progress = FALSE, !.completed = TRUE, !.failed = FALSE]

\* InstallStep::fail
\* faulty variant: the in_progress flag is not cleared
InstallStep_fail_KeepInProgress(s) == [s EXCEPT !.completed = FALSE, !.failed = TRUE]
InstallStep_fail(s) ==
    [s EXCEPT !.in_progress = FALSE, !.completed = FALSE, !.failed = TRUE]

\* InstallProgress::new
\* faulty variant: the list holds the first record only
InstallProgress_new_OneRecord ==
    [steps |-> <<InstallStep_new(InstallStepNames[1])>>,
     current_step |-> 0,
     overall_progress |-> 0]
InstallProgress_new ==
    [steps |-> [i \in 1..NumSteps |-> InstallStep_new(InstallStepNames[i])],
     current_step |-> 0,
     overall_progress |-> 0]

\* steps.iter().filter(|s| s.completed).count()
CompletedCount(ss) == Cardinality({j \in 1..Len(ss) : ss[j].completed})

\* InstallProgress::update_progress (scaled by steps.len(), see the header)
\* faulty variant: the records not completed are counted
update_progress_Remaining(p) ==
    [p EXCEPT !.overall_progress = 100 * (Len(p.steps) - CompletedCount(p.steps))]
update_progress(p) == [p EXCEPT !.overall_progress = 100 * CompletedCount(p.steps)]

\* The bounds check `step_index < self.steps.len()`
\* faulty variant: the bounds check admits steps.len()
InRange_OffByOne(p, step_index) == step_index <= Len(p.steps)
InRange(p, step_index) == step_index < Len(p.steps)

\* InstallProgress::start_step (index 0-based; sequences here are 1-based)
\* faulty variant: the active index is not recorded
start_step_NoActive(p, step_index) ==
    IF InRange(p, step_index)
    THEN update_progress([p EXCEPT !.steps[step_index + 1] = InstallStep_start(@)])
    ELSE p
start_step(p, step_index) ==
    IF InRange(p, step_index)
    THEN update_progress(
            [p EXCEPT !.steps[step_index + 1] = InstallStep_start(@),
                      !.current_step = step_index])
    ELSE p

\* InstallProgress::complete_step
\* faulty variant: the records before step_index are completed with it
complete_step_UpTo(p, step_index) ==
    IF InRange(p, step_index)
    THEN update_progress(
            [p EXCEPT !.steps = [j \in 1..Len(p.steps) |->
                                    IF j <= step_index + 1 THEN InstallStep_complete(@[j])
                                    ELSE @[j]]])
    ELSE p
complete_step(p, step_index) ==
    IF InRange(p, step_index)
    THEN update_progress([p EXCEPT !.steps[step_index + 1] = InstallStep_complete(@)])
    ELSE p

\* InstallProgress::fail_step: no update_progress
\* faulty variant: the record is marked as complete_step marks it
fail_step_MarksCompleted(p, step_index) == complete_step(p, step_index)
\* faulty variant: the aggregate is recomputed after the record is marked
fail_step_Recompute(p, step_index) ==
    IF InRange(p, step_index)
    THEN update_progress([p EXCEPT !.steps[step_index + 1] = InstallStep_fail(@)])
    ELSE p
fail_step(p, step_index) ==
    IF InRange(p, step_index)
    THEN [p EXCEPT !.steps[step_index + 1] = InstallStep_fail(@)]
    ELSE p

\* ------------------------------------------------------- TuiMessage, TuiApp
StartStep(i)       == [tag |-> "StartStep", index |-> i, text |-> ""]
CompleteStep(i)    == [tag |-> "CompleteStep", index |-> i, text |-> ""]
FailStep(i)        == [tag |-> "FailStep", index |-> i, text |-> ""]
UpdateStatus(text) == [tag |-> "UpdateStatus", index |-> 0, text |-> text]
Exit               == [tag |-> "Exit", index |-> 0, text |-> ""]

\* format!("<prefix>{}", argument): the pieces of the formatted string
Format(prefix, argument) == <<prefix, argument>>

\* TuiApp::new
TuiApp_new ==
    [progress |-> InstallProgress_new,
     status_message |-> <<"Starting installation...">>,
     should_quit |-> FALSE]

\* The arm of handle_message for a message that carries a step index;
\* `after` is the progress model once the arm's operation has been applied.
HandleIndexed(app, step, after, named, raw) ==
    IF step < Len(app.progress.steps)
    THEN [app EXCEPT !.progress = after,
                     !.status_message = Format(named, after.steps[step + 1].name)]
    ELSE [app EXCEPT !.status_message = Format(raw, ToString(step))]

\* The three indexed arms of handle_message.
HandleStartStep(app, step) ==
    HandleIndexed(app, step, start_step(app.progress, step),
                  "Starting: ", "Starting step ")
HandleCompleteStep(app, step) ==
    HandleIndexed(app, step, complete_step(app.progress, step),
                  "Completed: ", "Completed step ")
HandleFailStep(app, step) ==
    HandleIndexed(app, step, fail_step(app.progress, step),
                  "Failed: ", "Failed step ")

\* faulty variant: Exit does not set should_quit
handle_message_ExitIgnored(app, message) ==
    IF message.tag = "Exit" THEN app
    ELSE IF message.tag = "StartStep"
         THEN HandleStartStep(app, message.index)
    ELSE IF message.tag = "CompleteStep"
         THEN HandleCompleteStep(app, message.index)
    ELSE IF message.tag = "FailStep"
         THEN HandleFailStep(app, message.index)
    ELSE [app EXCEPT !.status_message = <<message.text>>]
\* faulty variant: the status message also sets should_quit
handle_message_StatusQuits(app, message) ==
    IF message.tag = "UpdateStatus"
    THEN [app EXCEPT !.status_message = <<message.text>>, !.should_quit = TRUE]
    ELSE IF message.tag = "Exit" THEN [app EXCEPT !.should_quit = TRUE]
    ELSE IF message.tag = "StartStep"
         THEN HandleStartStep(app, message.index)
    ELSE IF message.tag = "CompleteStep"
         THEN HandleCompleteStep(app, message.index)
    ELSE HandleFailStep(app, message.index)
\* faulty variant: Exit also rewrites the status text
handle_message_ExitRewritesStatus(app, message) ==
    IF message.tag = "Exit"
    THEN [app EXCEPT !.status_message = <<"Exiting">>, !.should_quit = TRUE]
    ELSE IF message.tag = "UpdateStatus"
         THEN [app EXCEPT !.status_message = <<message.text>>]
    ELSE IF message.tag = "StartStep"
         THEN HandleStartStep(app, message.index)
    ELSE IF message.tag = "CompleteStep"
         THEN HandleCompleteStep(app, message.index)
    ELSE HandleFailStep(app, message.index)
\* TuiApp::handle_message
handle_message(app, message) ==
    CASE message.tag = "StartStep" ->
            HandleStartStep(app, message.index)
      [] message.tag = "CompleteStep" ->
            HandleCompleteStep(app, message.index)
      [] message.tag = "FailStep" ->
            HandleFailStep(app, message.index)
      [] message.tag = "UpdateStatus" ->
            [app EXCEPT !.status_message = <<message.text>>]
      [] message.tag = "Exit" ->
            [app EXCEPT !.should_quit = TRUE]

\* The TuiApp held in the variables, and its assignment.
Progress == [steps |-> steps, current_step |-> current_step,
             overall_progress |-> overall_progress]
App == [progress |-> Progress, status_message |-> status_message,
        should_quit |-> should_quit]
SetProgress(p) ==
    /\ steps' = p.steps
    /\ current_step' = p.current_step
    /\ overall_progress' = p.overall_progress
SetApp(a) ==
    /\ SetProgress(a.progress)
    /\ status_message' = a.status_message
    /\ should_quit' = a.should_quit

\* ------------------------------------------------------- initial values
RegIdle ==
    /\ reg_steps = <<>>
    /\ exec_pc = "idle"
    /\ exec_idx = 0
    /\ exec_result = None
    /\ ran = <<>>
    /\ reported = <<>>
    /\ step_error = None
    /\ failed_at = 0
    /\ in_flight = {}
    /\ succeeded = {}

\* No step harness run yet.
NoRun == [step |-> "", result |-> None]

\* A host on which everything works.
HostFine == [fs_ok |-> TRUE, os_ok |-> TRUE, ext_ok |-> TRUE]

\* A project directory in which no virtual environment has been made yet,
\* no command spawned and no secret generated.
ProjectFresh == [venv |-> FALSE, activate |-> NoneOpt, requirements |-> FALSE]
HostIdle ==
    /\ files = ProjectFresh
    /\ spawned = <<>>
    /\ generated = <<>>

\* Before any configuration is loaded: no file, the default configuration.
CtxIdle ==
    /\ ctx = InstallationContext_new(OpenVairConfig_default)
    /\ disk = NoneOpt
    /\ env = HostFine
    /\ last_run = NoRun

\* The configurations a context can be built from: load_or_create_interactive
\* prompts only for a blank login or password, so a file can bring a login
\* or password of any other length.  The lengths are the ones around the
\* limits of UserDataVerificationStep.
LoginLengths ==
    {MIN_LOGIN_LENGTH - 1, MIN_LOGIN_LENGTH, MAX_LOGIN_LENGTH, MAX_LOGIN_LENGTH + 1}
PasswordLengths == {MIN_PASSWORD_LENGTH - 1, MIN_PASSWORD_LENGTH}

HarnessConfigs ==
    {[OpenVairConfig_default EXCEPT !.login = Str("config_login", l),
                                    !.password = Str("config_password", p)] :
        l \in LoginLengths, p \in PasswordLengths}

\* The contexts the harnesses start from: a context as InstallationContext::new
\* builds it, with the public user_login / user_password fields left None or
\* set by the caller.
HarnessContexts ==
    {[InstallationContext_new(cfg) EXCEPT !.user_login = ul, !.user_password = up] :
        cfg \in HarnessConfigs,
        ul \in {NoneOpt} \cup {Some(Str("given_login", l)) : l \in LoginLengths},
        up \in {NoneOpt} \cup {Some(Str("given_password", p)) : p \in PasswordLengths}}

\* A harness context, with the configuration file holding its configuration
\* (load_or_create_interactive saves what it returns).
CtxHarness ==
    /\ ctx \in HarnessContexts
    /\ disk = Some(ctx.config)
    /\ env = HostFine
    /\ last_run = NoRun

NoCall == [op |-> "none", index |-> 0, tag |-> ""]

AppFresh ==
    /\ steps = TuiApp_new.progress.steps
    /\ current_step = TuiApp_new.progress.current_step
    /\ overall_progress = TuiApp_new.progress.overall_progress
    /\ status_message = TuiApp_new.status_message
    /\ should_quit = TuiApp_new.should_quit
    /\ last_call = NoCall

ChanIdle ==
    /\ queue = <<>>
    /\ inst_pc = "idle"
    /\ inst_i = 0
    /\ inst_result = None
    /\ tui_pc = "idle"
    /\ loop_end = "none"
    /\ sent = <<>>
    /\ applied = <<>>

MainIdle ==
    /\ cli = [command |-> "None", tui |-> FALSE]
    /\ main_pc = "idle"
    /\ main_result = None

\* ------------------------------------------------------- registry harness
\* Any registry of at most MaxRegistry steps drawn from MaxTypes step types
\* is built with add_step and then executed.
HarnessTypes == {FirstTenTypes[j] : j \in 1..MaxTypes}

RegAddStep(ty) ==
    /\ exec_pc = "build"
    /\ Len(reg_steps) < MaxRegistry
    /\ reg_steps' = add_step(reg_steps, ty)
    /\ UNCHANGED <<exec_pc, exec_idx, exec_result, ran, reported, step_error, failed_at,
                   in_flight, succeeded>>
    /\ UNCHANGED <<ctxVars, hostVars, progVars, chanVars, mainVars>>

RegExecuteAll ==
    /\ exec_pc = "build"
    /\ exec_pc' = "loop"
    /\ UNCHANGED <<reg_steps, exec_idx, exec_result, ran, reported, step_error, failed_at,
                   in_flight, succeeded>>
    /\ UNCHANGED <<ctxVars, hostVars, progVars, chanVars, mainVars>>

RegLoop == ExecLoop /\ UNCHANGED <<ctxVars, hostVars, progVars, chanVars, mainVars>>

RegRunReturns ==
    ExecRunReturns /\ UNCHANGED <<env, last_run, generated, progVars, chanVars, mainVars>>

InitRegistry ==
    /\ reg_steps = <<>>
    /\ exec_pc = "build"
    /\ exec_idx = 0
    /\ exec_result = None
    /\ ran = <<>>
    /\ reported = <<>>
    /\ step_error = None
    /\ failed_at = 0
    /\ in_flight = {}
    /\ succeeded = {}
    /\ CtxHarness
    /\ HostIdle
    /\ AppFresh /\ ChanIdle /\ MainIdle

NextRegistry ==
    \/ \E ty \in HarnessTypes : RegAddStep(ty)
    \/ RegExecuteAll
    \/ RegLoop
    \/ RegRunReturns

SpecRegistry == InitRegistry /\ [][NextRegistry]_vars

\* ------------------------------------------------------- step harness
\* Steps are run one at a time, in any order and any number of times, against
\* any harness context on any host; the host stays as it is between runs.
StepHarnessTypes ==
    {"TmuxInstallStep", "UserDataVerificationStep", "JwtSecretStep", "OsTypeDetectionStep"}

\* step.run(ctx).await for a step of type ty
RunStep(ty) ==
    /\ \E o \in StepRuns(ty, ctx, disk, files, env) :
          /\ ctx' = o.ctx
          /\ disk' = o.disk
          /\ files' = o.files
          /\ spawned' = o.spawned
          /\ last_run' = [step |-> ty, result |-> o.result]
    /\ UNCHANGED <<env, generated, regVars, progVars, chanVars, mainVars>>

InitStep ==
    /\ RegIdle
    /\ ctx \in HarnessContexts
    /\ disk = Some(ctx.config)
    /\ env \in Envs
    /\ last_run = NoRun
    /\ HostIdle
    /\ AppFresh /\ ChanIdle /\ MainIdle

NextStep == \E ty \in StepHarnessTypes : RunStep(ty)

SpecStep == InitStep /\ [][NextStep]_vars

\* ------------------------------------------------------- host harness
\* The steps that look at the project directory are run one at a time, in
\* any order and any number of times, on any host and any project
\* directory: with or without a virtual environment, an activate script
\* that is empty, fresh, already extended or that mentions the path in
\* another text, with or without requirements.txt.
ActivateContents == {<<>>, FreshActivate, <<"export", "other">>, <<"other", "marker">>}

HarnessFiles ==
    {f \in [venv : BOOLEAN,
            activate : {NoneOpt} \cup {Some(s) : s \in ActivateContents},
            requirements : BOOLEAN] : (f.activate # NoneOpt) => f.venv}

HostHarnessTypes == {"VenvCreationStep", "PythonPathStep", "PythonRequirementsStep"}

InitHost ==
    /\ RegIdle
    /\ ctx = InstallationContext_new(OpenVairConfig_default)
    /\ disk = Some(ctx.config)
    /\ env \in Envs
    /\ last_run = NoRun
    /\ files \in HarnessFiles
    /\ spawned = <<>>
    /\ generated = <<>>
    /\ AppFresh /\ ChanIdle /\ MainIdle

NextHost == \E ty \in HostHarnessTypes : RunStep(ty)

SpecHost == InitHost /\ [][NextHost]_vars

\* ------------------------------------------------------- progress harness
\* Any sequence of start_step / complete_step / fail_step calls and of
\* messages is applied to a fresh TuiApp.  The indices are the first
\* MaxIndex valid ones, the first invalid one, and one further out.
HarnessIndices == (0..(MaxIndex - 1)) \cup {NumSteps, NumSteps + MaxIndex}

StatusTexts == {"Installation completed successfully!"}

HarnessMessages ==
    {StartStep(i) : i \in HarnessIndices} \cup {CompleteStep(i) : i \in HarnessIndices}
    \cup {FailStep(i) : i \in HarnessIndices} \cup {UpdateStatus(t) : t \in StatusTexts}
    \cup {Exit}

CallStartStep(i) ==
    /\ SetProgress(start_step(Progress, i))
    /\ last_call' = [op |-> "start_step", index |-> i, tag |-> ""]
    /\ UNCHANGED <<status_message, should_quit>>
    /\ UNCHANGED <<regVars, ctxVars, hostVars, chanVars, mainVars>>

CallCompleteStep(i) ==
    /\ SetProgress(complete_step(Progress, i))
    /\ last_call' = [op |-> "complete_step", index |-> i, tag |-> ""]
    /\ UNCHANGED <<status_message, should_quit>>
    /\ UNCHANGED <<regVars, ctxVars, hostVars, chanVars, mainVars>>

CallFailStep(i) ==
    /\ SetProgress(fail_step(Progress, i))
    /\ last_call' = [op |-> "fail_step", index |-> i, tag |-> ""]
    /\ UNCHANGED <<status_message, should_quit>>
    /\ UNCHANGED <<regVars, ctxVars, hostVars, chanVars, mainVars>>

CallHandleMessage(m) ==
    /\ SetApp(handle_message(App, m))
    /\ last_call' = [op |-> "handle_message", index |-> m.index, tag |-> m.tag]
    /\ UNCHANGED <<regVars, ctxVars, hostVars, chanVars, mainVars>>

InitProgress == RegIdle /\ CtxIdle /\ HostIdle /\ AppFresh /\ ChanIdle /\ MainIdle

NextProgress ==
    \/ \E i \in HarnessIndices : CallStartStep(i)
    \/ \E i \in HarnessIndices : CallCompleteStep(i)
    \/ \E i \in HarnessIndices : CallFailStep(i)
    \/ \E m \in HarnessMessages : CallHandleMessage(m)

SpecProgress == InitProgress /\ [][NextProgress]_vars

\* ------------------------------------------------------- secret harness
\* generate_random_secret is called MaxGenerations times in a row, as the
\* test of installer.rs does; what the generator drew is kept with the text.
Generate ==
    /\ Len(generated) < MaxGenerations
    /\ \E secret_bytes \in RandomBytes :
          generated' = Append(generated,
                              [bytes |-> secret_bytes,
                               text |-> generate_random_secret(secret_bytes)])
    /\ UNCHANGED <<files, spawned>>
    /\ UNCHANGED <<regVars, ctxVars, progVars, chanVars, mainVars>>

NextSecret == Generate

SpecSecret == InitProgress /\ [][NextSecret]_vars

\* ------------------------------------------------------- scenario harness
\* The events of a run of two steps, the second of which fails.
FailureScenario == <<StartStep(0), CompleteStep(0), StartStep(1), FailStep(1)>>

\* The step events about the first MaxIndex steps.
ScenarioHarnessMessages ==
    {StartStep(i) : i \in 0..(MaxIndex - 1)} \cup {CompleteStep(i) : i \in 0..(MaxIndex - 1)}
    \cup {FailStep(i) : i \in 0..(MaxIndex - 1)}

\* app.handle_message(m) on the app of the scenario; the messages applied
\* are recorded, up to the length of the scenario.
ApplyMessage(m) ==
    /\ Len(applied) < Len(FailureScenario)
    /\ SetApp(handle_message(App, m))
    /\ applied' = Append(applied, m)
    /\ last_call' = [op |-> "handle_message", index |-> m.index, tag |-> m.tag]
    /\ UNCHANGED <<queue, inst_pc, inst_i, inst_result, tui_pc, loop_end, sent>>
    /\ UNCHANGED <<regVars, ctxVars, hostVars, mainVars>>

NextScenario == \E m \in ScenarioHarnessMessages : ApplyMessage(m)

SpecScenario == InitProgress /\ [][NextScenario]_vars

\* ------------------------------------------------------- message channel
\* UnboundedSender::send: the message joins the back of the queue.
\* faulty variant: the message jumps the queue
Send_Front(q, m) == <<m>> \o q
Send(q, m) == Append(q, m)

\* UnboundedReceiver::try_recv on a non-empty queue: the oldest message and
\* the queue without it.
\* faulty variant: the newest message is taken
TryRecv_Newest(q) == [message |-> q[Len(q)], rest |-> SubSeq(q, 1, Len(q) - 1)]
\* faulty variant: the channel is drained, only the oldest message is kept
TryRecv_Drain(q) == [message |-> Head(q), rest |-> <<>>]
TryRecv(q) == [message |-> Head(q), rest |-> Tail(q)]

\* ------------------------------------------------------- installation task
\* `for i in 0..10`
SimulatedSteps == 10

CompletedText == "Installation completed successfully!"

InstSend(m) ==
    /\ queue' = Send(queue, m)
    /\ sent' = Append(sent, m)

\* run_installation_with_progress, loading the configuration: reading or
\* parsing an existing file can fail, and the task then returns the error
\* before it has sent anything.
InstLoadConfig ==
    /\ inst_pc = "load"
    /\ \E outcome \in {Ok, Err([step |-> "load_config", kind |-> "external"])} :
          IF IsErr(outcome)
          THEN inst_result' = outcome /\ inst_pc' = "returned"
          ELSE inst_pc' = "send_start" /\ UNCHANGED inst_result
    /\ UNCHANGED <<queue, inst_i, tui_pc, loop_end, sent, applied>>
    /\ UNCHANGED <<regVars, ctxVars, hostVars, progVars, mainVars>>

InstSendStart ==
    /\ inst_pc = "send_start"
    /\ InstSend(StartStep(inst_i))
    /\ inst_pc' = "send_complete"
    /\ UNCHANGED <<inst_i, inst_result, tui_pc, loop_end, applied>>
    /\ UNCHANGED <<regVars, ctxVars, hostVars, progVars, mainVars>>

InstSendComplete ==
    /\ inst_pc = "send_complete"
    /\ InstSend(CompleteStep(inst_i))
    /\ inst_i' = inst_i + 1
    /\ inst_pc' = IF inst_i + 1 < SimulatedSteps THEN "send_start" ELSE "send_status"
    /\ UNCHANGED <<inst_result, tui_pc, loop_end, applied>>
    /\ UNCHANGED <<regVars, ctxVars, hostVars, progVars, mainVars>>

InstSendStatus ==
    /\ inst_pc = "send_status"
    /\ InstSend(UpdateStatus(CompletedText))
    /\ inst_pc' = "send_exit"
    /\ UNCHANGED <<inst_i, inst_result, tui_pc, loop_end, applied>>
    /\ UNCHANGED <<regVars, ctxVars, hostVars, progVars, mainVars>>

InstSendExit ==
    /\ inst_pc = "send_exit"
    /\ InstSend(Exit)
    /\ inst_result' = Ok
    /\ inst_pc' = "returned"
    /\ UNCHANGED <<inst_i, tui_pc, loop_end, applied>>
    /\ UNCHANGED <<regVars, ctxVars, hostVars, progVars, mainVars>>

\* ------------------------------------------------------- dashboard loop
Keys == {"none", "q", "Esc", "other"}
QuitKeys == {"q", "Esc"}

\* How an iteration of the loop ends: a quit key breaks first, then the
\* should_quit test; "none" goes round again.
\* faulty variant: should_quit is not tested
LoopBreak_IgnoreQuitFlag(key, quit) == IF key \in QuitKeys THEN "key" ELSE "none"
LoopBreak(key, quit) ==
    IF key \in QuitKeys THEN "key"
    ELSE IF quit THEN "exit"
    ELSE "none"

\* One iteration of the loop of run_tui_with_installation: draw, at most
\* one try_recv and handle_message, the key poll, the should_quit test.
TuiTick(key) ==
    /\ tui_pc = "loop"
    /\ IF queue # <<>>
       THEN LET r == TryRecv(queue) IN
            /\ SetApp(handle_message(App, r.message))
            /\ queue' = r.rest
            /\ applied' = Append(applied, r.message)
            /\ last_call' = [op |-> "handle_message", index |-> r.message.index,
                             tag |-> r.message.tag]
       ELSE UNCHANGED <<progVars, queue, applied>>
    /\ loop_end' = LoopBreak(key, should_quit')
    /\ tui_pc' = IF loop_end' = "none" THEN "loop" ELSE "join"
    /\ UNCHANGED <<inst_pc, inst_i, inst_result, sent>>
    /\ UNCHANGED <<regVars, ctxVars, hostVars, mainVars>>

\* `let _ = install_handle.await;` then the terminal cleanup.
\* faulty variant: the handle is dropped instead of awaited
TuiJoin_NoAwait ==
    /\ tui_pc = "join"
    /\ tui_pc' = "returned"
    /\ UNCHANGED <<queue, inst_pc, inst_i, inst_result, loop_end, sent, applied>>
    /\ UNCHANGED <<regVars, ctxVars, hostVars, progVars, mainVars>>
TuiJoin ==
    /\ tui_pc = "join"
    /\ inst_pc = "returned"
    /\ tui_pc' = "returned"
    /\ UNCHANGED <<queue, inst_pc, inst_i, inst_result, loop_end, sent, applied>>
    /\ UNCHANGED <<regVars, ctxVars, hostVars, progVars, mainVars>>

\* The value run_tui_with_installation returns after the cleanup; the
\* result of the installation task was dropped inside the spawned task.
run_tui_result == Ok

\* ------------------------------------------------------- main
Commands == {"Install", "ExtendedInstall", "ValidateConfig", "GenerateConfig", "None"}
InstallCommands == {"Install", "ExtendedInstall", "None"}

\* Termination of main: Err gives exit status 1, Ok gives 0.
ExitStatus(r) == IF IsErr(r) THEN 1 ELSE 0

\* main in dashboard mode: run_tui_with_installation (the extended variant
\* redirects to it) creates the app and the channel and spawns the task.
MainDispatchTui ==
    /\ main_pc = "start"
    /\ cli.command \in InstallCommands /\ cli.tui
    /\ main_pc' = "tui"
    /\ tui_pc' = "loop"
    /\ inst_pc' = "load"
    /\ UNCHANGED <<cli, main_result>>
    /\ UNCHANGED <<queue, inst_i, inst_result, loop_end, sent, applied>>
    /\ UNCHANGED <<regVars, ctxVars, hostVars, progVars>>

\* OpenVairConfig::load_or_create_interactive: reading or parsing an
\* existing file can fail; a missing file gives the default configuration,
\* whose blank login and password are prompted for (the prompts accept a
\* login of 4 to 30 and a password of at least 4 characters); the result is
\* saved.
PromptedConfigs ==
    {[OpenVairConfig_default EXCEPT !.login = Str("typed_login", l),
                                    !.password = Str("typed_password", MIN_PASSWORD_LENGTH)] :
        l \in {MIN_LOGIN_LENGTH, MAX_LOGIN_LENGTH}}

load_or_create_interactive(d) ==
    {[result |-> Err([step |-> "load_or_create_interactive", kind |-> "external"]),
      config |-> OpenVairConfig_default, disk |-> d]}
    \cup {[result |-> Ok, config |-> cfg, disk |-> Some(cfg)] :
            cfg \in IF d = NoneOpt THEN PromptedConfigs ELSE {d[1]}}

\* main in console mode: run_first_ten_steps / run_extended_installation
\* load the configuration (which can fail), build the context and the
\* registry and call execute_all.
MainDispatchConsole ==
    /\ main_pc = "start"
    /\ cli.command \in InstallCommands /\ ~cli.tui
    /\ \E l \in load_or_create_interactive(disk) :
          IF IsErr(l.result)
          THEN /\ main_result' = Err(QuestionMark(l.result[2]))
               /\ main_pc' = "returned"
               /\ UNCHANGED <<reg_steps, exec_pc, ctx, disk>>
          ELSE /\ ctx' = InstallationContext_new(l.config)
               /\ disk' = l.disk
               /\ reg_steps' = BuildRegistry(IF cli.command = "ExtendedInstall"
                                             THEN ExtendedTypes ELSE FirstTenTypes)
               /\ exec_pc' = "loop"
               /\ main_pc' = "console"
               /\ UNCHANGED main_result
    /\ UNCHANGED <<exec_idx, exec_result, ran, reported, step_error, failed_at,
                   in_flight, succeeded>>
    /\ UNCHANGED <<env, last_run, hostVars, cli, progVars, chanVars>>

\* validate_config / generate_config: main returns what they return.
MainUtility ==
    /\ main_pc = "start"
    /\ cli.command \notin InstallCommands
    /\ \E outcome \in {Ok, Err([step |-> cli.command, kind |-> "external"])} :
          main_result' = IF IsErr(outcome) THEN Err(QuestionMark(outcome[2])) ELSE Ok
    /\ main_pc' = "returned"
    /\ UNCHANGED <<cli, regVars, ctxVars, hostVars, progVars, chanVars>>

\* execute_all has returned: the `?` chain up to main.
MainConsoleReturn ==
    /\ main_pc = "console"
    /\ exec_pc = "returned"
    /\ main_result' = IF IsErr(exec_result) THEN Err(QuestionMark(exec_result[2])) ELSE Ok
    /\ main_pc' = "returned"
    /\ UNCHANGED <<cli, regVars, ctxVars, hostVars, progVars, chanVars>>

\* run_tui_with_installation has returned.
MainTuiReturn ==
    /\ main_pc = "tui"
    /\ tui_pc = "returned"
    /\ main_result' = IF IsErr(run_tui_result) THEN Err(QuestionMark(run_tui_result[2])) ELSE Ok
    /\ main_pc' = "returned"
    /\ UNCHANGED <<cli, regVars, ctxVars, hostVars, progVars, chanVars>>

\* ------------------------------------------------------- the program
\* The project directory the program is started in: the virtual environment
\* is there (with the activate script venv wrote) or not, and so is
\* requirements.txt.  Only the console installation looks at it; for the
\* other commands it is taken fresh.
ProgramFiles ==
    {[venv |-> v, activate |-> IF v THEN Some(FreshActivate) ELSE NoneOpt,
      requirements |-> r] : v \in BOOLEAN, r \in BOOLEAN}

Init ==
    /\ RegIdle /\ AppFresh /\ ChanIdle
    /\ ctx = InstallationContext_new(OpenVairConfig_default)
    /\ disk \in {NoneOpt} \cup {Some(cfg) : cfg \in HarnessConfigs}
    /\ env = HostFine
    /\ last_run = NoRun
    /\ cli \in [command : Commands, tui : BOOLEAN]
    /\ files \in IF cli.command \in InstallCommands /\ ~cli.tui
                  THEN ProgramFiles ELSE {ProjectFresh}
    /\ spawned = <<>>
    /\ generated = <<>>
    /\ main_pc = "start"
    /\ main_result = None

InstStep ==
    InstLoadConfig \/ InstSendStart \/ InstSendComplete \/ InstSendStatus \/ InstSendExit

MainStep ==
    MainDispatchTui \/ MainDispatchConsole \/ MainUtility \/ MainConsoleReturn
    \/ MainTuiReturn

Next ==
    \/ MainStep
    \/ RegLoop
    \/ RegRunReturns
    \/ InstStep
    \/ \E key \in Keys : TuiTick(key)
    \/ TuiJoin

Spec == Init /\ [][Next]_vars

\* The program when the user never presses a quit key, with the scheduling
\* the runtime gives: the dashboard loop runs on main's thread and never
\* waits for a message, the spawned task runs on a worker thread, so each
\* of them keeps taking steps while it can.
TuiTickNoQuit == \E key \in Keys \ QuitKeys : TuiTick(key)

NextNoQuit ==
    \/ MainStep
    \/ RegLoop
    \/ RegRunReturns
    \/ InstStep
    \/ TuiTickNoQuit
    \/ TuiJoin

LiveSpec ==
    /\ Init
    /\ [][NextNoQuit]_vars
    /\ WF_vars(MainStep)
    /\ WF_vars(InstStep)
    /\ WF_vars(TuiTickNoQuit)
    /\ WF_vars(TuiJoin)

\* ======================================================= claims, registry

\* C1: execute_all runs the steps in build order, each at most once; when it
\* returns Ok every one of the N steps has run exactly once and none failed;
\* when the k-th step fails, exactly steps 1..k have run, execute_all has
\* returned an error, and no later step is ever run.
C1_ExecuteAllInOrderFailFast ==
    /\ Len(ran) <= Len(reg_steps)
    /\ \A j \in 1..Len(ran) : ran[j] = j
    /\ (exec_pc = "returned" /\ exec_result = Ok)
          => (Len(ran) = Len(reg_steps) /\ failed_at = 0)
    /\ (failed_at # 0)
          => (Len(ran) = failed_at /\ exec_pc = "returned" /\ IsErr(exec_result))
    /\ (exec_pc = "returned") => (exec_result = Ok \/ failed_at # 0)

\* C1 witness: a three-step registry whose second step failed.
C1_Witness ==
    /\ exec_pc = "returned"
    /\ Len(reg_steps) = 3
    /\ failed_at = 2
    /\ ran = <<1, 2>>

\* C2: the number printed as [p/N] for the step at build position p is p,
\* also when the registry holds two structurally identical steps.
C2_ReportedPositionIsBuildPosition ==
    /\ Len(reported) = Len(ran)
    /\ \A j \in 1..Len(reported) : reported[j] = ran[j]

\* C7: when a step's run returns a failure, execute_all returns exactly
\* that failure value.
C7_FailureReturnedUnchanged ==
    /\ (step_error # None) => (exec_pc = "returned" /\ exec_result = step_error)
    /\ IsErr(exec_result) => exec_result = step_error

\* C7 witness: execute_all has returned the external failure of a step.
C7_Witness ==
    /\ exec_pc = "returned"
    /\ IsErr(exec_result)
    /\ exec_result[2].kind = "external"
    /\ failed_at = Len(reg_steps)

\* ======================================================= claims, progress model

\* The operation recorded in last_call is a start / complete / fail of the
\* model, called directly or through handle_message.
IsStart(c)    == c.op = "start_step" \/ (c.op = "handle_message" /\ c.tag = "StartStep")
IsComplete(c) == c.op = "complete_step" \/ (c.op = "handle_message" /\ c.tag = "CompleteStep")
IsFail(c)     == c.op = "fail_step" \/ (c.op = "handle_message" /\ c.tag = "FailStep")

\* C3: after any sequence of start_step, complete_step and fail_step calls
\* the aggregate held by the model is 100 * (records Completed) / (records);
\* in the scaled representation, overall_progress = 100 * CompletedCount.
C3_AggregateIsCompletedShare == overall_progress = 100 * CompletedCount(steps)

\* C9: start_step(i) with i in range leaves record i InProgress with the
\* completed and failed flags cleared, whatever its state was; when the
\* record was Completed the number of Completed records drops by one and
\* the aggregate is the share of the records still Completed.
C9_StartStepResetsRecord ==
    [][ (IsStart(last_call') /\ last_call'.index < NumSteps) =>
          LET k == last_call'.index + 1 IN
          /\ steps'[k].in_progress /\ ~steps'[k].completed /\ ~steps'[k].failed
          /\ steps[k].completed =>
                /\ CompletedCount(steps') = CompletedCount(steps) - 1
                /\ overall_progress' = 100 * CompletedCount(steps')
      ]_vars

\* C9 witness: record 0 was completed through CompleteStep(0) and then
\* start_step(0) was called: it is InProgress and no longer counted.
C9_Witness ==
    /\ last_call = [op |-> "start_step", index |-> 0, tag |-> ""]
    /\ status_message = Format("Completed: ", InstallStepNames[1])
    /\ steps[1].in_progress /\ ~steps[1].completed /\ ~steps[1].failed
    /\ steps[2].completed
    /\ overall_progress = 100

\* The status string handle_message leaves for an out-of-range index.
RawIndexStatus(c) ==
    Format(CASE c.tag = "StartStep" -> "Starting step "
             [] c.tag = "CompleteStep" -> "Completed step "
             [] c.tag = "FailStep" -> "Failed step ",
           ToString(c.index))

\* C10: start_step, complete_step and fail_step with an index >= the number
\* of records change no record, nor the active index, nor the aggregate;
\* handle_message with such an index changes the status text only, to the
\* text that holds the raw index.
C10_OutOfRangeIsHarmless ==
    [][ ((IsStart(last_call') \/ IsComplete(last_call') \/ IsFail(last_call'))
            /\ last_call'.index >= NumSteps) =>
          /\ UNCHANGED <<steps, current_step, overall_progress, should_quit>>
          /\ IF last_call'.op = "handle_message"
             THEN status_message' = RawIndexStatus(last_call')
             ELSE UNCHANGED status_message
      ]_vars

\* C10 witness: StartStep(39) was handled after record 0 had been completed;
\* the model is as CompleteStep(0) left it and the status shows 39.
C10_Witness ==
    /\ last_call = [op |-> "handle_message", index |-> NumSteps, tag |-> "StartStep"]
    /\ status_message = Format("Starting step ", ToString(NumSteps))
    /\ steps[1].completed
    /\ current_step = 0
    /\ overall_progress = 100

\* ======================================================= claims, dashboard run

\* The messages of a fully successful run, as the claims list them:
\* StartStep(0), CompleteStep(0), ..., StartStep(9), CompleteStep(9), Exit.
ScenarioMessages ==
    [j \in 1..(2 * SimulatedSteps + 1) |->
        IF j = 2 * SimulatedSteps + 1 THEN Exit
        ELSE IF j % 2 = 1 THEN StartStep((j - 1) \div 2)
        ELSE CompleteStep((j - 2) \div 2)]

IsStepEvent(m) == m.tag # "UpdateStatus"

\* The observer has applied exactly the scenario's step events and Exit, in
\* that order (status texts aside).
ScenarioApplied == SelectSeq(applied, IsStepEvent) = ScenarioMessages

\* C4: once the observer has applied StartStep(0), CompleteStep(0), ...,
\* StartStep(9), CompleteStep(9), Exit to a fresh model, the aggregate is
\* 100 percent (scaled: 100 * NumSteps).
C4_FinalAggregateIs100 == ScenarioApplied => overall_progress = 100 * NumSteps

\* C5: when the user presses no quit key, once the installation task has
\* sent its last message, Exit, the dashboard loop eventually applies Exit,
\* ends because of it, and run_tui_with_installation returns.
SentExit == sent # <<>> /\ sent[Len(sent)] = Exit
C5_LoopEndsOnExit ==
    SentExit ~> (loop_end = "exit" /\ tui_pc = "returned" /\ ScenarioApplied)

\* C5 witness: the loop has ended on Exit, every message applied.
C5_Witness ==
    /\ loop_end = "exit"
    /\ tui_pc = "returned"
    /\ applied = sent
    /\ Len(applied) = 2 * SimulatedSteps + 2

\* C6: the messages applied by handle_message are a prefix of the messages
\* sent, and the rest of the sent messages is what the channel holds: none
\* lost, duplicated or reordered.
C6_AppliedIsPrefixOfSent == sent = applied \o queue

\* C6 witness: the observer lags behind: it has applied some messages while
\* several others wait in the channel.
C6_Witness ==
    /\ Len(applied) >= 3
    /\ Len(queue) >= 3
    /\ tui_pc = "loop"
    /\ applied = SubSeq(sent, 1, Len(applied))

\* The installation run has ended with a failure.
InstallationFailed ==
    \/ IsErr(exec_result)
    \/ IsErr(inst_result)
    \/ (cli.command \in InstallCommands /\ ~cli.tui /\ exec_pc = "idle"
        /\ IsErr(main_result))

\* C8: whatever the command and the mode, when the installation run has
\* ended with a failure main returns an error: the exit status is not 0.
C8_FailureGivesNonZeroExit ==
    (main_pc = "returned" /\ InstallationFailed) => ExitStatus(main_result) # 0

\* ======================================================= claims, steps and context

\* C11: a step run again right after its own successful run succeeds again
\* and leaves the context exactly as the first run left it.
C11_SecondRunIsIdempotent ==
    [][(last_run.result = Ok /\ last_run'.step = last_run.step)
          => (last_run'.result = Ok /\ ctx' = ctx)]_vars

\* ======================================================= claims, dashboard loop

\* C12 as stated: once a quit key has ended the loop, control can return to
\* the caller whether or not the execution task has finished.
C12_QuitReturnsWithoutWaiting ==
    (tui_pc = "join" /\ loop_end = "key") => ENABLED TuiJoin

\* C12: a quit key ends the loop without interrupting the execution task,
\* which can go on until it has finished; control returns to the caller
\* only once the task has finished.
C12_QuitWaitsForTask ==
    /\ (tui_pc = "returned") => (inst_pc = "returned")
    /\ (loop_end = "key" /\ inst_pc # "returned") => (tui_pc = "join" /\ ENABLED InstStep)

\* C12 witness: a quit key was read before the task had sent anything, the
\* task then ran to its end, and only then did control return.
C12_Witness ==
    /\ tui_pc = "returned"
    /\ loop_end = "key"
    /\ applied = <<>>
    /\ Len(sent) = 2 * SimulatedSteps + 2
    /\ sent[Len(sent)] = Exit

\* C13: the iteration of the loop that reads a quit key, or that handles the
\* Exit message, breaks the loop; once the loop is over no message is taken
\* from the channel or applied to the progress model any more.
C13_LoopEndsAtOnce ==
    [][/\ \A key \in QuitKeys : TuiTick(key) => tui_pc' = "join"
       /\ (tui_pc = "loop" /\ Len(applied') > Len(applied)
              /\ applied'[Len(applied')] = Exit) => tui_pc' = "join"
       /\ (tui_pc \in {"join", "returned"})
              => /\ tui_pc' \in {"join", "returned"}
                 /\ applied' = applied
                 /\ Len(queue') >= Len(queue)
                 /\ UNCHANGED progVars]_vars

\* C13 witness: a quit key ended the loop after some messages had been
\* applied, and the messages sent since are still in the channel.
C13_Witness ==
    /\ loop_end = "key"
    /\ tui_pc = "returned"
    /\ applied # <<>>
    /\ queue # <<>>
    /\ sent = applied \o queue

\* C14: under observation every message on the channel reports a transition
\* of a step of the registry: StartStep(i) is sent when step i has started,
\* CompleteStep(i) when its run has returned Ok, FailStep(i) when its run
\* has failed.
C14_MessagesFollowStepTransitions ==
    \A j \in 1..Len(sent) :
        /\ sent[j].tag = "StartStep"
              => \E k \in 1..Len(ran) : ran[k] = sent[j].index + 1
        /\ sent[j].tag = "CompleteStep" => (sent[j].index + 1) \in succeeded
        /\ sent[j].tag = "FailStep" => failed_at = sent[j].index + 1

\* ======================================================= claims, sequential execution

\* C15: at every instant of execute_all at most one step's run is in
\* progress, and a step is started only after the run of every step before
\* it has returned successfully.
C15_OneStepAtATime ==
    /\ Cardinality(in_flight) <= 1
    /\ \A j \in 1..Len(ran) : \A i \in 1..(ran[j] - 1) : i \in succeeded
    /\ \A k \in in_flight : k \notin succeeded /\ exec_pc = "run" /\ k = exec_idx + 1

\* C15 witness: the second step is running, the first has succeeded.
C15_Witness ==
    /\ exec_pc = "run"
    /\ in_flight = {2}
    /\ succeeded = {1}

\* ======================================================= claims, step records

\* The state of a step record, read off its three flags.
Pending(s) == ~s.in_progress /\ ~s.completed /\ ~s.failed
InProgress(s) == s.in_progress /\ ~s.completed /\ ~s.failed
Completed(s) == ~s.in_progress /\ s.completed /\ ~s.failed
Failed(s) == ~s.in_progress /\ ~s.completed /\ s.failed

\* C16: whatever start/complete/fail operations and messages have been
\* applied, every step record is Pending, InProgress, Completed or Failed:
\* at most one of its three flags is set.
C16_OneStatePerRecord ==
    \A j \in 1..Len(steps) :
        Pending(steps[j]) \/ InProgress(steps[j]) \/ Completed(steps[j]) \/ Failed(steps[j])

\* C16 witness: a record that was started and then failed, next to one that
\* is in progress.
C16_Witness ==
    /\ Failed(steps[1])
    /\ InProgress(steps[2])
    /\ current_step = 1

\* C17: a step record becomes Completed or Failed only from InProgress:
\* never directly from Pending, never from the other terminal state.
C17_TerminalOnlyFromInProgress ==
    [][\A j \in 1..Len(steps) :
          /\ (Completed(steps'[j]) /\ ~Completed(steps[j])) => InProgress(steps[j])
          /\ (Failed(steps'[j]) /\ ~Failed(steps[j])) => InProgress(steps[j])]_vars

\* C18: after StartStep(0), CompleteStep(0), StartStep(1), FailStep(1) on a
\* fresh progress model the first record is Completed, the second Failed,
\* every later one Pending, and the aggregate counts the first record only.
C18_FailureScenarioOutcome ==
    (applied = FailureScenario)
        => /\ Completed(steps[1])
           /\ Failed(steps[2])
           /\ \A j \in 3..Len(steps) : Pending(steps[j])
           /\ overall_progress = 100
           /\ ~should_quit

\* C18 witness: the four events of the scenario have been applied.
C18_Witness ==
    /\ applied = FailureScenario
    /\ last_call.tag = "FailStep"
    /\ current_step = 1

\* ======================================================= claims, user data verification

\* The run of UserDataVerificationStep by execute_all returns in this step.
VerificationReturns ==
    /\ exec_pc = "run"
    /\ reg_steps[exec_idx + 1].ty = "UserDataVerificationStep"
    /\ exec_pc' # "run"

\* The login and password the step has to use: the pre-supplied one when
\* present, else the one of the configuration.
ExpectedLogin == IF ctx.user_login # <<>> THEN ctx.user_login[1] ELSE ctx.config.login
ExpectedPassword ==
    IF ctx.user_password # <<>> THEN ctx.user_password[1] ELSE ctx.config.password
CredentialsAcceptable ==
    /\ ExpectedLogin.len >= MIN_LOGIN_LENGTH
    /\ ExpectedLogin.len <= MAX_LOGIN_LENGTH
    /\ ExpectedPassword.len >= MIN_PASSWORD_LENGTH

\* C19: UserDataVerificationStep succeeds only when the login in use has 4
\* to 30 characters and the password in use at least 4; otherwise its run
\* fails, the context and the configuration file stay as they were,
\* execute_all returns the failure and no later step is run.
C19_InvalidCredentialsAbort ==
    [][/\ VerificationReturns
          => /\ ((exec_idx + 1) \in succeeded') => CredentialsAcceptable
             /\ ~CredentialsAcceptable
                   => /\ failed_at' = exec_idx + 1
                      /\ IsErr(step_error')
                      /\ step_error'[2].kind = "precondition"
                      /\ ctx' = ctx
                      /\ disk' = disk
                      /\ exec_pc' = "returned"
                      /\ exec_result' = step_error'
       /\ (failed_at # 0) => (ran' = ran /\ ctx' = ctx /\ disk' = disk)]_vars

\* C19 witness: a login of 31 characters made the step fail as the second of
\* three steps; the third was not run and the context is the initial one.
C19_Witness ==
    /\ exec_pc = "returned"
    /\ Len(reg_steps) = 3
    /\ reg_steps[2].ty = "UserDataVerificationStep"
    /\ failed_at = 2
    /\ ran = <<1, 2>>
    /\ step_error # None /\ step_error[2].kind = "precondition"
    /\ ctx.user_login # <<>> /\ ctx.user_login[1].len = MAX_LOGIN_LENGTH + 1
    /\ disk = <<ctx.config>>

\* C20: in UserDataVerificationStep a pre-supplied login or password, when
\* present, is the one validated and stored, whatever the configuration
\* holds for that field, and each field is treated on its own; after a
\* successful run the configuration holds the login and password used.
C20_SuppliedCredentialsTakePrecedence ==
    [][(last_run'.step = "UserDataVerificationStep")
          => /\ (last_run'.result = Ok)
                   => /\ CredentialsAcceptable
                      /\ ctx'.config.login = ExpectedLogin
                      /\ ctx'.config.password = ExpectedPassword
                      /\ disk' = <<ctx'.config>>
             /\ (IsErr(last_run'.result) /\ last_run'.result[2].kind = "precondition")
                   => ~CredentialsAcceptable
             /\ ctx'.user_login = ctx.user_login
             /\ ctx'.user_password = ctx.user_password]_vars

\* C20 witness: a successful run with a pre-supplied login and no
\* pre-supplied password: the configuration holds the supplied login and
\* its own password.
C20_Witness ==
    /\ last_run = [step |-> "UserDataVerificationStep", result |-> Ok]
    /\ ctx.user_login # <<>>
    /\ ctx.user_password = <<>>
    /\ ctx.config.login = ctx.user_login[1]
    /\ ctx.config.password.id = "config_password"
    /\ disk = <<ctx.config>>

\* ======================================================= claims, secrets

IsTick == \E key \in Keys : TuiTick(key)

\* C22: an iteration of the dashboard loop takes at most one message from
\* the channel and never waits for one: the iteration can always be made,
\* and on an empty channel it applies nothing to the model and takes
\* nothing from the channel.
C22_AtMostOneMessagePerTick ==
    [][/\ (tui_pc = "loop") => ENABLED TuiTick("none")
       /\ Len(applied') <= Len(applied) + 1
       /\ Len(queue') >= Len(queue) - 1
       /\ (Len(applied') = Len(applied) + 1)
             => (queue # <<>> /\ applied' = Append(applied, Head(queue))
                 /\ queue' = Tail(queue))
       /\ (IsTick /\ queue = <<>>)
             => (UNCHANGED <<progVars, applied, queue>>
                 /\ (tui_pc' = "loop" \/ loop_end' = "key"))]_vars

\* C22 witness: the loop is running on an empty channel, after it has
\* applied messages and before the task has sent its next one.
C22_Witness ==
    /\ tui_pc = "loop"
    /\ queue = <<>>
    /\ applied # <<>>
    /\ applied = sent
    /\ inst_pc # "returned"

\* ======================================================= claims, frame of the progress model

\* C23: fail_step(i), called directly or through a FailStep message, leaves
\* the aggregate as it was, for every index and every state of the model.
C23_FailStepKeepsAggregate ==
    [][IsFail(last_call') => overall_progress' = overall_progress]_vars

\* C23 witness: a record that had been completed was failed, and the
\* aggregate still counts it.
C23_Witness ==
    /\ IsFail(last_call)
    /\ last_call.index = 0
    /\ Failed(steps[1])
    /\ overall_progress = 100

\* C24: current_step is the index of the most recent in-range start_step
\* (0 before any): an in-range start_step(i) sets it to i; complete_step,
\* fail_step, out-of-range calls and the other messages leave it as it was.
C24_ActiveIndexFollowsStart ==
    [][/\ (last_call = NoCall) => current_step = 0
       /\ IF IsStart(last_call') /\ last_call'.index < Len(steps)
          THEN current_step' = last_call'.index
          ELSE current_step' = current_step]_vars

\* C24 witness: record 0 was completed after record 1 had been started,
\* and the active index is still 1.
C24_Witness ==
    /\ IsComplete(last_call)
    /\ last_call.index = 0
    /\ Completed(steps[1])
    /\ InProgress(steps[2])
    /\ current_step = 1

\* ======================================================= claims, registry sequence

\* C25: add_step puts the new step at the end and keeps the steps already
\* present in their order; once execute_all has been called the sequence
\* is never changed, whether the run succeeds or fails.
C25_RegistryAppendOnly ==
    [][/\ (reg_steps' # reg_steps)
             => /\ exec_pc = "build"
                /\ Len(reg_steps') = Len(reg_steps) + 1
                /\ SubSeq(reg_steps', 1, Len(reg_steps)) = reg_steps
       /\ (exec_pc # "build") => reg_steps' = reg_steps]_vars

\* C25 witness: a registry built from steps of different types has been
\* executed and the run failed at its second step.
C25_Witness ==
    /\ exec_pc = "returned"
    /\ Len(reg_steps) = 3
    /\ reg_steps[1].ty # reg_steps[2].ty
    /\ reg_steps[2].ty # reg_steps[3].ty
    /\ failed_at = 2

\* C26: in a fresh progress model (nothing applied to it yet) every step
\* record is Pending, the aggregate is 0 and the active index is 0.
C26_FreshModelIsPending ==
    (last_call = NoCall)
        => /\ \A j \in 1..Len(steps) : Pending(steps[j])
           /\ overall_progress = 0
           /\ current_step = 0

\* C26 witness: the model as TuiApp::new builds it, with its 39 records.
C26_Witness ==
    /\ last_call = NoCall
    /\ Len(steps) = NumSteps
    /\ steps[1].name = InstallStepNames[1]
    /\ ~should_quit

\* ======================================================= claims, indices of a dashboard run

\* The prefixes of the status texts of the out-of-range arms of handle_message.
RawIndexPrefixes == {"Starting step ", "Completed step ", "Failed step "}

\* C27: every index the installation task sends in a StartStep, CompleteStep
\* or FailStep message is a position of the dashboard's step list, so the
\* dashboard never shows the status text of an out-of-range index.
C27_SentIndicesInRange ==
    /\ \A j \in 1..Len(sent) :
          IsStepEvent(sent[j]) => (sent[j].index >= 0 /\ sent[j].index < Len(steps))
    /\ status_message[1] \notin RawIndexPrefixes

\* C27 witness: the message about the last simulated step has been applied
\* and the status names the record at that position.
C27_Witness ==
    /\ applied # <<>>
    /\ applied[Len(applied)] = CompleteStep(SimulatedSteps - 1)
    /\ status_message = Format("Completed: ", InstallStepNames[SimulatedSteps])
    /\ Completed(steps[SimulatedSteps])

\* ======================================================= claims, commands and files

\* The text t is the text s without the whitespace around it.
IsTrimmed(s, t) ==
    /\ (t # <<>>) => (t[1] \notin Whitespace /\ t[Len(t)] \notin Whitespace)
    /\ \E i \in 0..Len(s) :
          /\ i + Len(t) <= Len(s)
          /\ SubSeq(s, i + 1, i + Len(t)) = t
          /\ \A j \in 1..Len(s) : (j <= i \/ j > i + Len(t)) => s[j] \in Whitespace

\* What run_command has to return for a process.
CommandResultRight(proc, r) ==
    /\ (r = Ok) <=> (proc.started /\ proc.code = <<0>>)
    /\ (proc.started /\ proc.code # <<0>>)
          => /\ IsErr(r)
             /\ r[2].code = (IF proc.code = <<>> THEN -1 ELSE proc.code[1])
             /\ IsTrimmed(proc.stderr, r[2].stderr)

\* C28: run_command returns Ok exactly when the process exits with status
\* zero; on another exit it returns a failure with the exit code (-1 when
\* there is none) and the stderr text; the step that called it spawns the
\* command once and returns that failure.
C28_CommandFailureCarriesCodeAndStderr ==
    [][/\ \A j \in 1..Len(spawned') :
             CommandResultRight(spawned'[j].proc, spawned'[j].result)
       /\ (last_run'.step = "PythonRequirementsStep" /\ files.requirements)
             => (Len(spawned') = 1 /\ last_run'.result = spawned'[1].result)
       /\ (last_run'.step = "VenvCreationStep" /\ ~files.venv)
             => (Len(spawned') = 1 /\ last_run'.result = spawned'[1].result)]_vars

\* C28 witness: the pip command was ended by a signal; the step has
\* returned the failure with code -1 and the stderr text without the
\* whitespace around it.
C28_Witness ==
    /\ last_run.step = "PythonRequirementsStep"
    /\ Len(spawned) = 1
    /\ spawned[1].proc.code = <<>>
    /\ spawned[1].proc.stderr = <<" ", "E", " ", "r", "\n">>
    /\ IsErr(last_run.result)
    /\ last_run.result[2].code = -1
    /\ last_run.result[2].stderr = <<"E", " ", "r">>

\* The run of the step of type ty by execute_all returns in this step.
RunOfReturns(ty) ==
    /\ exec_pc = "run"
    /\ reg_steps[exec_idx + 1].ty = ty
    /\ exec_pc' # "run"

\* C29: when requirements.txt is absent, PythonRequirementsStep spawns no
\* command, changes nothing and returns Ok, and execute_all goes on to the
\* next step.
C29_MissingRequirementsIsSkipped ==
    [][(RunOfReturns("PythonRequirementsStep") /\ ~files.requirements)
          => /\ spawned' = <<>>
             /\ (exec_idx + 1) \in succeeded'
             /\ failed_at' = 0
             /\ UNCHANGED <<files, ctx, disk>>
             /\ exec_pc' = "loop"
             /\ exec_idx' = exec_idx + 1
             /\ exec_idx' < Len(reg_steps)]_vars

\* C29 witness: in an extended installation without requirements.txt the
\* step after PythonRequirementsStep has been started.
C29_Witness ==
    /\ ~files.requirements
    /\ exec_pc = "run"
    /\ exec_idx > 0
    /\ reg_steps[exec_idx].ty = "PythonRequirementsStep"
    /\ exec_idx \in succeeded
    /\ in_flight = {exec_idx + 1}
    /\ spawned = <<>>

\* The number of PYTHONPATH export lines for the project path in a script.
RECURSIVE ExportCount(_)
ExportCount(content) ==
    IF content = <<>> THEN 0
    ELSE (IF Head(content) = PythonPathLine THEN 1 ELSE 0) + ExportCount(Tail(content))

\* A run of PythonPathStep against an existing activate script returns in
\* this step.
PythonPathRuns ==
    /\ last_run'.step = "PythonPathStep"
    /\ files.activate # NoneOpt

\* C30 as stated: once the activate script exists a run of PythonPathStep
\* never fails, and it leaves one more export line in the script when the
\* line was not there and none more when it was.
C30_ExportLineAddedUnlessPresent ==
    [][PythonPathRuns
          => /\ last_run'.result = Ok
             /\ files'.activate # NoneOpt
             /\ ExportCount(files'.activate[1])
                    = ExportCount(files.activate[1])
                      + (IF ExportCount(files.activate[1]) = 0 THEN 1 ELSE 0)]_vars

\* C30 amended: on a host whose file operations succeed a run of
\* PythonPathStep against an existing activate script returns Ok; it appends
\* the export line when the script does not contain the text
\* PYTHONPATH="<project path>: anywhere and leaves the script as it is when
\* it does, so that after the run the text is there and a further run adds
\* nothing.  When a file operation fails the run fails and the script is
\* untouched.  No run spawns a command or touches the rest of the directory.
C30_ExportLineAddedUnlessPathMentioned ==
    [][PythonPathRuns
          => /\ files'.activate # NoneOpt
             /\ files'.venv = files.venv
             /\ files'.requirements = files.requirements
             /\ spawned' = <<>>
             /\ env.fs_ok
                   => /\ last_run'.result = Ok
                      /\ contains_pythonpath(files'.activate[1])
                      /\ files'.activate[1]
                            = IF contains_pythonpath(files.activate[1])
                              THEN files.activate[1]
                              ELSE files.activate[1] \o <<PythonPathLine>>
                      /\ ExportCount(files'.activate[1])
                            = ExportCount(files.activate[1])
                              + (IF contains_pythonpath(files.activate[1]) THEN 0 ELSE 1)
             /\ ~env.fs_ok
                   => /\ IsErr(last_run'.result)
                      /\ files' = files]_vars

\* C30 witness: PythonPathStep has run on the script that python3 -m venv
\* wrote and the script now ends with the one export line.
C30_Witness ==
    /\ last_run = [step |-> "PythonPathStep", result |-> Ok]
    /\ files.activate = Some(FreshActivate \o <<PythonPathLine>>)
    /\ ExportCount(files.activate[1]) = 1
    /\ env.fs_ok

\* The names of the steps of a registry are pairwise different.
NamesUnique(seq) ==
    \A i, j \in 1..Len(seq) :
        i # j => InstallerStep_name(seq[i].ty) # InstallerStep_name(seq[j].ty)

\* C31: the registry the orchestrator holds is the 10-step or the 21-step
\* one, and no two steps of either have the same name.
C31_StepNamesUnique ==
    /\ Len(BuildRegistry(FirstTenTypes)) = 10
    /\ Len(BuildRegistry(ExtendedTypes)) = 21
    /\ NamesUnique(BuildRegistry(FirstTenTypes))
    /\ NamesUnique(BuildRegistry(ExtendedTypes))
    /\ reg_steps \in {<<>>, BuildRegistry(FirstTenTypes), BuildRegistry(ExtendedTypes)}
    /\ NamesUnique(reg_steps)

\* C31 witness: the extended registry has been built and is being executed.
C31_Witness ==
    /\ Len(reg_steps) = 21
    /\ InstallerStep_name(reg_steps[12].ty) = "LibvirtPython"
    /\ exec_pc = "run"
    /\ exec_idx = 11

\* ======================================================= claims, end of the dashboard run

\* C32: on every path on which the installation task of a dashboard run
\* terminates, with Ok or with an error, it has sent Exit before (so that
\* the loop, left alone by the user, ends).
C32_TerminatedTaskHasSentExit ==
    (inst_pc = "returned") => SentExit

\* C33: Exit is the last message the installation task sends; should_quit,
\* once set, is never cleared; and when the loop ends because of Exit every
\* message the task has sent has been applied and none waits in the channel.
C33_ExitIsLastAndAllApplied ==
    [][/\ SentExit => sent' = sent
       /\ \A j \in 1..Len(sent') : sent'[j] = Exit => j = Len(sent')
       /\ should_quit => should_quit'
       /\ (should_quit' /\ ~should_quit)
             => (Len(applied') > 0 /\ applied'[Len(applied')] = Exit)
       /\ loop_end' = "exit"
             => (should_quit' /\ SentExit' /\ applied' = sent' /\ queue' = <<>>)]_vars

\* C33 witness: the loop has just ended because of Exit, while the task's
\* function has already returned, the quit flag is set and the channel is
\* empty.
C33_Witness ==
    /\ loop_end = "exit"
    /\ should_quit
    /\ tui_pc = "join"
    /\ queue = <<>>
    /\ Len(sent) = 2 * SimulatedSteps + 2
    /\ applied[Len(applied)] = Exit

\* ======================================================= claims, the model during a dashboard run

\* C34: whatever the interleaving of the task's sends and the loop's ticks,
\* at most one record of the dashboard's progress model is InProgress, and
\* every record before it is Completed.
C34_OneInProgressAfterCompleted ==
    \A k \in 1..Len(steps) :
        InProgress(steps[k])
            => /\ \A j \in 1..Len(steps) : InProgress(steps[j]) => j = k
               /\ \A j \in 1..(k - 1) : Completed(steps[j])

\* C34 witness: the loop has applied StartStep(2) while the task is already
\* further on; the third record is InProgress, the two before it Completed.
C34_Witness ==
    /\ tui_pc = "loop"
    /\ InProgress(steps[3])
    /\ Completed(steps[1]) /\ Completed(steps[2])
    /\ Len(applied) = 5
    /\ Len(queue) >= 2

\* The number of CompleteStep messages in a sequence of messages.
CompleteStepsIn(messages) ==
    Cardinality({j \in 1..Len(messages) : messages[j].tag = "CompleteStep"})

\* C35: during a dashboard run the aggregate of the dashboard's model never
\* decreases from one step of the run to the next, in particular from one
\* tick of the loop to the next, and the number of completed records never
\* exceeds the number of CompleteStep messages the task has sent so far.
C35_AggregateMonotoneAndBounded ==
    [][/\ overall_progress' >= overall_progress
       /\ CompletedCount(steps') <= CompleteStepsIn(sent')]_vars

\* C35 witness: three records are completed and the aggregate stands at
\* 3/39 while the task has already sent five CompleteStep messages.
C35_Witness ==
    /\ tui_pc = "loop"
    /\ CompletedCount(steps) = 3
    /\ overall_progress = 300
    /\ CompleteStepsIn(sent) = 5

\* ======================================================= claims, frame of the operations

\* C36: start_step(i), complete_step(i) and fail_step(i), called directly
\* or through their message, leave the list of records as long as it was
\* and every record other than record i as it was (every record, when i is
\* out of range).
C36_OtherRecordsUntouched ==
    [][(IsStart(last_call') \/ IsComplete(last_call') \/ IsFail(last_call'))
          => /\ Len(steps') = Len(steps)
             /\ \A j \in 1..Len(steps) :
                    j # last_call'.index + 1 => steps'[j] = steps[j]]_vars

\* C36 witness: record 1 was failed after record 0 had been completed and
\* has stayed so.
C36_Witness ==
    /\ last_call = [op |-> "fail_step", index |-> 1, tag |-> ""]
    /\ Failed(steps[2])
    /\ Completed(steps[1])
    /\ Pending(steps[3])

\* The message recorded in last_call was handled by handle_message.
Handled(c, tags) == c.op = "handle_message" /\ c.tag \in tags

\* C37: handle_message(UpdateStatus(text)) sets the status text to text and
\* changes nothing else, handle_message(Exit) sets the quit flag and changes
\* nothing else (no record, not the active index, not the aggregate), and
\* the StartStep, CompleteStep and FailStep messages leave the quit flag as
\* it was.
C37_MessagesChangeOnlyTheirField ==
    [][/\ Handled(last_call', {"UpdateStatus"})
             => /\ UNCHANGED <<steps, current_step, overall_progress, should_quit>>
                /\ \E text \in StatusTexts : status_message' = <<text>>
       /\ Handled(last_call', {"Exit"})
             => /\ UNCHANGED <<steps, current_step, overall_progress, status_message>>
                /\ should_quit'
       /\ Handled(last_call', {"StartStep", "CompleteStep", "FailStep"})
             => UNCHANGED should_quit]_vars

\* C37 witness: Exit was handled after a status message and a completed
\* record; the text and the record are still there.
C37_Witness ==
    /\ Handled(last_call, {"Exit"})
    /\ should_quit
    /\ status_message = <<"Installation completed successfully!">>
    /\ Completed(steps[1])
    /\ current_step = 1
    /\ overall_progress = 100

\* ======================================================= claims, validate and the verification step

\* The login and password checks of validate pass: it returns Ok or stops
\* at a later check.
CredentialChecksPass(r) == ~(IsErr(r) /\ r[2].kind \in {"login", "password"})

\* The length checks of UserDataVerificationStep pass: it returns Ok or
\* fails later, on saving.
LengthChecksPass(r) == ~(IsErr(r) /\ r[2].kind = "precondition")

\* C38: on a context without pre-supplied credentials, whatever the login
\* and the password of the configuration, validate's login and password
\* checks pass exactly when the length checks of UserDataVerificationStep
\* pass, that is when the login has 4 to 30 characters and the password at
\* least 4.
C38_ValidateAgreesWithVerification ==
    [][(/\ last_run'.step = "UserDataVerificationStep"
        /\ ctx.user_login = NoneOpt
        /\ ctx.user_password = NoneOpt)
          => LET inRange == /\ ctx.config.login.len \in 4..30
                            /\ ctx.config.password.len >= 4
             IN  /\ LengthChecksPass(last_run'.result) <=> inRange
                 /\ \A host \in WebAppHosts :
                        CredentialChecksPass(validate(ctx.config, host)) <=> inRange
                 /\ validate(ctx.config, <<"h">>) = Ok <=> inRange]_vars

\* C38 witness: the step has accepted a configuration whose login has 30
\* characters, and validate accepts that configuration too.
C38_Witness ==
    /\ last_run = [step |-> "UserDataVerificationStep", result |-> Ok]
    /\ ctx.user_login = NoneOpt
    /\ ctx.user_password = NoneOpt
    /\ ctx.config.login.len = 30
    /\ ctx.config.password.len = 4
    /\ validate(ctx.config, <<"h">>) = Ok
    /\ IsErr(validate(ctx.config, <<" ">>))

====
